---- MODULE Spec2Model ----
(***************************************************************************)
(* Model of the field-state engine of packages/core/src/models/field.ts    *)
(* (class FieldStateFactory): the state record, the read operation         *)
(* getState, and a commit that runs the dirty check and the five produce   *)
(* stages over a working copy of the state.                                *)
(*                                                                         *)
(* JavaScript values are records [k, n, a]: k is "undef", "num" or "arr",  *)
(* n the number, a the elements of an array (numbers).  Optional booleans  *)
(* (editable, selfEditable, required) are the strings "undef", "true",     *)
(* "false"; formEditable may also be "fnT"/"fnF", a function of the field  *)
(* name returning true/false.  Messages are strings, "" being the falsy    *)
(* one.  Inputs to `values' and to the message channels are arrays.        *)
(* name and path are fixed at construction and touched, active and visited *)
(* are not read or written by any produce stage; they are left out of the  *)
(* state record.  Array elements are numbers, which tagArrayList does not  *)
(* tag.                                                                    *)
(***************************************************************************)
EXTENDS Integers, Sequences, FiniteSets, TLC

\* ------------------------------------------------------------------ bounds
MaxVal == 1         \* numbers 1..MaxVal are the defined values

\* ---------------------------------------------------- JavaScript values
Undef == [k |-> "undef", n |-> 0, a |-> <<>>]
Num(i) == [k |-> "num", n |-> i, a |-> <<>>]
Arr(s) == [k |-> "arr", n |-> 0, a |-> s]

\* @formily/shared helpers
isValid(v) == v.k # "undef"

isValidOpt(b) == b # "undef"

isFn(b) == b \in {"fnT", "fnF"}

isArr(v) == v.k = "arr"

isEqual(x, y) == x = y

isEmpty(v) == \/ v.k = "undef"
              \/ v.k = "arr" /\ \A i \in 1..Len(v.a) : v.a[i] = 0

toArr(v) == IF isArr(v) THEN v
            ELSE IF v.k = "num" /\ v.n # 0 THEN Arr(<<v.n>>)
            ELSE Arr(<<>>)

\* field.ts:19
normalizeMessages(messages) == SelectSeq(messages, LAMBDA v : v # "")

\* field.ts:21-30
DEEP_INSPECT_PROPERTY_KEYS ==
  {"props", "rules", "errors", "warnings", "effectErrors",
   "effectWarnings", "ruleErrors", "ruleWarnings"}

\* field.ts:32-35 (original() of a draft is the value it wraps)
getOriginalValue(value) == value

\* field.ts:48-57, 308-310: elements that are not objects get no tag
tagArrayList(value) == value

\* field.ts:312-314
isArrayList(dataType) == dataType = "array"

\* values[0] of a JavaScript array (undefined when the array is empty)
First(vs) == IF Len(vs) = 0 THEN Undef ELSE vs[1]

\* values[0] = v on a JavaScript array
SetFirst(vs, v) == IF Len(vs) = 0 THEN <<v>> ELSE [vs EXCEPT ![1] = v]

\* field.ts:71-106
InitialState(dataType) ==
  [ dataType |-> dataType,
    initialized |-> FALSE,
    pristine |-> TRUE,
    valid |-> TRUE,
    modified |-> FALSE,
    invalid |-> FALSE,
    visible |-> TRUE,
    display |-> TRUE,
    loading |-> FALSE,
    validating |-> FALSE,
    errors |-> <<>>,
    values |-> <<>>,
    ruleErrors |-> <<>>,
    ruleWarnings |-> <<>>,
    effectErrors |-> <<>>,
    warnings |-> <<>>,
    effectWarnings |-> <<>>,
    editable |-> "true",
    selfEditable |-> "undef",
    formEditable |-> "undef",
    value |-> Undef,
    visibleCacheValue |-> Undef,
    initialValue |-> Undef,
    rules |-> <<>>,
    required |-> "false",
    mounted |-> FALSE,
    unmounted |-> FALSE,
    unmountRemoveValue |-> TRUE,
    props |-> "{}" ]

VARIABLES
  state,               \* this.state
  lastCompareResults,  \* this.lastCompareResults: "undef", "true", "false"
  needRemove,          \* what props.needRemoveValue(path) answers
  hasGetValue,         \* whether props.getValue is provided
  hasGetInitialValue,  \* whether props.getInitialValue is provided
  extValue,            \* what props.getValue(name) answers
  extInitialValue,     \* what props.getInitialValue(name) answers
  op,                  \* the last operation: "init", "commit", "read", "drift"
  touched,             \* the property names the last commit's mutation assigned
  reassigned,          \* the last commit assigned every property its current value
  dirtys,              \* the dirty map of the last commit (set of dirty names)
  calls,               \* collaborator calls made by the last operation
  returned,            \* the snapshot the last read returned
  anchor,              \* value shown when the last non-visibility commit ended
  mountSynced,         \* some commit has changed mounted or unmounted
  assignedEditable,    \* what the last commit assigned to editable, or "none"
  invalidated          \* a field with errors was hidden, no message mutation since

vars == <<state, lastCompareResults, needRemove, hasGetValue,
          hasGetInitialValue, extValue,
          extInitialValue, op, touched, reassigned, dirtys, calls, returned, anchor,
          mountSynced, assignedEditable, invalidated>>

Call(fn, arg) == [fn |-> fn, arg |-> arg]

\* dirtyCheck comparing the deep properties by identity as well: an assigned
\* array is always a new object
dirtyCheckByIdentity(propName, value, nextValue, fresh) ==
  value # nextValue \/ fresh \/ propName \in DEEP_INSPECT_PROPERTY_KEYS

\* field.ts:134-141; fresh: the assigned array is a new object
dirtyCheck(propName, value, nextValue, fresh) ==
  IF propName \in DEEP_INSPECT_PROPERTY_KEYS
  THEN ~isEqual(value, nextValue)
  ELSE value # nextValue \/ fresh

\* ------------------------------------------------------ produce stages
\* A stage works on c = [d |-> the draft, calls |-> collaborator calls so far].

\* field.ts:171-188
NormalizeChannels(d, dirty) ==
  LET d1 == IF "errors" \in dirty
            THEN [d EXCEPT !.effectErrors = normalizeMessages(d.errors)]
            ELSE d
      d2 == IF "warnings" \in dirty
            THEN [d1 EXCEPT !.effectWarnings = normalizeMessages(d1.warnings)]
            ELSE d1
      d3 == IF "effectErrors" \in dirty
            THEN [d2 EXCEPT !.effectErrors = normalizeMessages(d2.effectErrors)]
            ELSE d2
      d4 == IF "effectWarnings" \in dirty
            THEN [d3 EXCEPT !.effectWarnings =
                               normalizeMessages(d3.effectWarnings)]
            ELSE d3
      d5 == IF "ruleErrors" \in dirty
            THEN [d4 EXCEPT !.ruleErrors = normalizeMessages(d4.ruleErrors)]
            ELSE d4
  IN  IF "ruleWarnings" \in dirty
      THEN [d5 EXCEPT !.ruleWarnings = normalizeMessages(d5.ruleWarnings)]
      ELSE d5

\* field.ts:189-190
ConcatChannels(d) ==
  [d EXCEPT !.errors = d.ruleErrors \o d.effectErrors,
            !.warnings = d.ruleWarnings \o d.effectWarnings]

\* field.ts:167-191
produceErrorsAndWarnings(d, dirty) == ConcatChannels(NormalizeChannels(d, dirty))

\* ResolveEditable giving formEditable precedence over selfEditable
ResolveEditableFormFirst(selfEditable, formEditable) ==
  IF isValidOpt(formEditable)
  THEN IF isFn(formEditable)
       THEN (IF formEditable = "fnT" THEN "true" ELSE "false")
       ELSE formEditable
  ELSE IF isValidOpt(selfEditable) THEN selfEditable ELSE "true"

\* field.ts:197-203
ResolveEditable(selfEditable, formEditable) ==
  IF isValidOpt(selfEditable) THEN selfEditable
  ELSE IF isValidOpt(formEditable)
       THEN IF isFn(formEditable)
            THEN (IF formEditable = "fnT" THEN "true" ELSE "false")
            ELSE formEditable
       ELSE "true"

\* field.ts:193-204
produceEditable(d, dirty) ==
  LET d1 == IF "editable" \in dirty
            THEN [d EXCEPT !.selfEditable = d.editable]
            ELSE d
  IN  [d1 EXCEPT !.editable = ResolveEditable(d1.selfEditable, d1.formEditable)]

\* field.ts:320-327
ValuesToValue(d, dirty) ==
  IF "values" \in dirty
  THEN LET vs == IF isArrayList(d.dataType)
                 THEN SetFirst(d.values, tagArrayList(toArr(First(d.values))))
                 ELSE d.values
       IN  [d EXCEPT !.values = vs, !.value = First(vs), !.modified = TRUE]
  ELSE d

\* field.ts:328-334
ValueToValues(d, dirty) ==
  IF "value" \in dirty
  THEN LET v == IF isArrayList(d.dataType)
                THEN tagArrayList(toArr(d.value))
                ELSE d.value
       IN  [d EXCEPT !.value = v, !.values = SetFirst(d.values, v),
                     !.modified = TRUE]
  ELSE d

\* the fill that takes only an unset value, not an empty one
DefaultFillsUnsetOnly(d, dirty) ==
  /\ "initialized" \in dirty
  /\ ~isValid(d.value)
  /\ isValid(d.initialValue)

\* field.ts:335-344: whether the first-initialisation default applies
DefaultFills(d, dirty) ==
  /\ "initialized" \in dirty
  /\ (~isValid(d.value) \/ isEmpty(d.value))
  /\ isValid(d.initialValue)

\* field.ts:354-360
ProducePristine(d) == [d EXCEPT !.pristine = isEqual(d.initialValue, d.value)]

\* field.ts:316-361
produceValue(c, dirty) ==
  LET d0 == c.d
      d1 == ValuesToValue(d0, dirty)
      d2 == ValueToValues(d1, dirty)
      fill == DefaultFills(d2, dirty)
      d3 == IF fill
            THEN [d2 EXCEPT !.value = d2.initialValue,
                            !.values = SetFirst(d2.values, d2.initialValue)]
            ELSE d2
      valueChanged == "values" \in dirty \/ "value" \in dirty \/ fill
      valueOrInitialValueChanged == valueChanged \/ "initialValue" \in dirty
      calls1 == IF valueChanged
                THEN Append(c.calls, Call("setValue", getOriginalValue(d3.value)))
                ELSE c.calls
      calls2 == IF "initialValue" \in dirty
                THEN Append(calls1, Call("setInitialValue",
                                         getOriginalValue(d3.initialValue)))
                ELSE calls1
  IN  [d |-> IF valueOrInitialValueChanged THEN ProducePristine(d3) ELSE d3,
       calls |-> calls2]

\* field.ts:207-213
ProduceLoading(d, dirty) ==
  IF "validating" \in dirty THEN [d EXCEPT !.loading = d.validating] ELSE d

\* field.ts:214-224
ClearMessages(d, dirty) ==
  IF \/ "editable" \in dirty
     \/ "selfEditable" \in dirty
     \/ d.visible = FALSE
     \/ d.unmounted = TRUE
  THEN [d EXCEPT !.errors = <<>>, !.effectErrors = <<>>,
                 !.warnings = <<>>, !.effectWarnings = <<>>]
  ELSE d

\* field.ts:225-227
ProduceProps(d) == IF d.props = "undef" THEN [d EXCEPT !.props = "{}"] ELSE d

\* SyncMounted without the steps driven by unmounted
SyncMountedOneWay(d, dirty) ==
  LET d1 == IF d.mounted = TRUE /\ "mounted" \in dirty
            THEN [d EXCEPT !.unmounted = FALSE] ELSE d
  IN  IF d1.mounted = FALSE /\ "mounted" \in dirty
      THEN [d1 EXCEPT !.unmounted = TRUE] ELSE d1

\* field.ts:228-239
SyncMounted(d, dirty) ==
  LET d1 == IF d.mounted = TRUE /\ "mounted" \in dirty
            THEN [d EXCEPT !.unmounted = FALSE] ELSE d
      d2 == IF d1.mounted = FALSE /\ "mounted" \in dirty
            THEN [d1 EXCEPT !.unmounted = TRUE] ELSE d1
      d3 == IF d2.unmounted = TRUE /\ "unmounted" \in dirty
            THEN [d2 EXCEPT !.mounted = FALSE] ELSE d2
  IN  IF d3.unmounted = FALSE /\ "unmounted" \in dirty
      THEN [d3 EXCEPT !.mounted = TRUE] ELSE d3

\* HideValue caching the current value even when it is already cleared
HideValueOverwriteCache(c, dirty) ==
  LET d == c.d
      d1 == IF "visibleCacheValue" \notin dirty
            THEN [d EXCEPT !.visibleCacheValue = d.value]
            ELSE d
  IN  [d |-> [d1 EXCEPT !.value = Undef, !.values = SetFirst(d1.values, Undef)],
       calls |-> Append(c.calls, Call("setValue", Undef))]

\* field.ts:247-257 and 275-285
HideValue(c, dirty) ==
  LET d == c.d
      d1 == IF "visibleCacheValue" \notin dirty
            THEN [d EXCEPT !.visibleCacheValue =
                    IF isValid(d.value) THEN d.value
                    ELSE IF isValid(d.visibleCacheValue)
                         THEN d.visibleCacheValue
                         ELSE d.initialValue]
            ELSE d
  IN  [d |-> [d1 EXCEPT !.value = Undef, !.values = SetFirst(d1.values, Undef)],
       calls |-> Append(c.calls, Call("setValue", Undef))]

\* the restore that does not tell the store
ShowValueSilent(c) ==
  IF ~isValid(c.d.value)
  THEN [d |-> [c.d EXCEPT !.value = c.d.visibleCacheValue], calls |-> c.calls]
  ELSE c

\* field.ts:263-269 and 287-293
ShowValue(c) ==
  IF ~isValid(c.d.value)
  THEN [d |-> [c.d EXCEPT !.value = c.d.visibleCacheValue],
        calls |-> Append(c.calls,
                         Call("setValue",
                              getOriginalValue(c.d.visibleCacheValue)))]
  ELSE c

\* the hide / show handling without its tests of display
ProduceVisibilityUngated(c, dirty, remove) ==
  IF dirty \cap {"visible", "mounted", "unmounted"} # {}
  THEN LET asked == c.d.unmountRemoveValue
           c1 == IF asked
                 THEN [c EXCEPT !.calls = Append(c.calls,
                                                 Call("needRemoveValue", Undef))]
                 ELSE c
       IN  IF asked /\ remove
           THEN IF c1.d.visible = FALSE \/ c1.d.unmounted = TRUE
                THEN HideValue(c1, dirty)
                ELSE ShowValue(c1)
           ELSE IF c1.d.visible = FALSE
                THEN HideValue(c1, dirty)
                ELSE ShowValue(c1)
  ELSE c

\* field.ts:240-297; remove: the answer of props.needRemoveValue(path)
ProduceVisibility(c, dirty, remove) ==
  IF dirty \cap {"visible", "mounted", "unmounted"} # {}
  THEN LET asked == c.d.unmountRemoveValue
           c1 == IF asked
                 THEN [c EXCEPT !.calls = Append(c.calls,
                                                 Call("needRemoveValue", Undef))]
                 ELSE c
       IN  IF asked /\ remove
           THEN IF c1.d.display
                THEN IF c1.d.visible = FALSE \/ c1.d.unmounted = TRUE
                     THEN HideValue(c1, dirty)
                     ELSE IF \/ c1.d.visible = TRUE
                             \/ c1.d.mounted = TRUE
                             \/ c1.d.unmounted = FALSE
                          THEN ShowValue(c1)
                          ELSE c1
                ELSE c1
           ELSE IF c1.d.display
                THEN IF c1.d.visible = FALSE
                     THEN HideValue(c1, dirty)
                     ELSE IF c1.d.visible = TRUE
                          THEN ShowValue(c1)
                          ELSE c1
                ELSE c1
  ELSE c

\* ProduceValid that derives invalid but leaves valid as the mutation wrote it
ProduceValidInvalidOnly(d) == [d EXCEPT !.invalid = (Len(d.errors) # 0)]

\* field.ts:299-305
ProduceValid(d) ==
  IF Len(d.errors) # 0
  THEN [d EXCEPT !.invalid = TRUE, !.valid = FALSE]
  ELSE [d EXCEPT !.invalid = FALSE, !.valid = TRUE]

\* field.ts:206-306
produceSideEffects(c, dirty, remove) ==
  LET d1 == ProduceLoading(c.d, dirty)
      d2 == ClearMessages(d1, dirty)
      d3 == ProduceProps(d2)
      d4 == SyncMounted(d3, dirty)
      c5 == ProduceVisibility([c EXCEPT !.d = d4], dirty, remove)
  IN  [c5 EXCEPT !.d = ProduceValid(c5.d)]

\* ------------------------------------------------------------- rules
\* A rule is [required |-> "undef" | "true" | "false", message |-> whether it
\* carries a message, extra |-> the number of its other keys].
Keys(item) == (IF item.required # "undef" THEN 1 ELSE 0)
              + (IF item.message THEN 1 ELSE 0) + item.extra

\* the reducer without its final rewrite: the entries that fail the
\* message / key-count tests are kept as they are
RewriteRuleByKeyCount(item, required) ==
  IF isValidOpt(item.required)
  THEN IF item.message
       THEN IF Keys(item) > 2
            THEN [item EXCEPT !.required = required]
            ELSE item
       ELSE IF Keys(item) > 1
            THEN [item EXCEPT !.required = required]
            ELSE item
  ELSE item

\* field.ts:372-398, the reducer applied to one entry
RewriteRule(item, required) ==
  IF isValidOpt(item.required)
  THEN IF item.message
       THEN IF Keys(item) > 2
            THEN [item EXCEPT !.required = required]
            ELSE [item EXCEPT !.required = required]
       ELSE IF Keys(item) > 1
            THEN [item EXCEPT !.required = required]
            ELSE [item EXCEPT !.required = required]
  ELSE item

\* field.ts:363-411
getRulesFromRulesAndRequired(rules, required) ==
  IF isValidOpt(required)
  THEN IF Len(rules) # 0
       THEN IF ~\E i \in 1..Len(rules) : isValidOpt(rules[i].required)
            THEN Append(rules, [required |-> required, message |-> FALSE,
                                extra |-> 0])
            ELSE [i \in 1..Len(rules) |-> RewriteRule(rules[i], required)]
       ELSE IF required = "true"
            THEN <<[required |-> required, message |-> FALSE, extra |-> 0]>>
            ELSE rules
  ELSE rules

\* the scan adopting the last declaring entry instead of the first
getRequiredFromLastRule(rules, required) ==
  LET declared == {i \in 1..Len(rules) : isValidOpt(rules[i].required)}
  IN  IF declared = {} THEN required
      ELSE rules[CHOOSE i \in declared : \A j \in declared : i >= j].required

\* field.ts:413-420
getRequiredFromRulesAndRequired(rules, required) ==
  LET declared == {i \in 1..Len(rules) : isValidOpt(rules[i].required)}
  IN  IF declared = {} THEN required
      ELSE rules[CHOOSE i \in declared : \A j \in declared : i <= j].required

\* field.ts:422-439
produceRules(d, dirty) ==
  IF "required" \in dirty
  THEN [d EXCEPT !.rules = getRulesFromRulesAndRequired(d.rules, d.required)]
  ELSE IF "rules" \in dirty
       THEN [d EXCEPT !.required =
                        getRequiredFromRulesAndRequired(d.rules, d.required)]
       ELSE d

\* field.ts:441-447
produce(d, dirty, remove) ==
  LET d1 == produceErrorsAndWarnings(d, dirty)
      d2 == produceEditable(d1, dirty)
      c3 == produceValue([d |-> d2, calls |-> <<>>], dirty)
      c4 == produceSideEffects(c3, dirty, remove)
  IN  [c4 EXCEPT !.d = produceRules(c4.d, dirty)]

\* ------------------------------------------------------------- commit
\* The dirty map of a mutation m (a function from the assigned property
\* names to their new values); fresh: the names assigned a new array object.
DirtysOf(s, m, fresh) ==
  {k \in DOMAIN m : dirtyCheck(k, s[k], m[k], k \in fresh)}

\* The working copy with the mutation applied
ApplyMutation(s, m) ==
  [k \in DOMAIN s |-> IF k \in DOMAIN m THEN m[k] ELSE s[k]]

\* The result of a commit: the new snapshot and the collaborator calls
CommitResult(s, m, fresh, remove) ==
  LET dirty == DirtysOf(s, m, fresh)
  IN  IF dirty = {} THEN [d |-> s, calls |-> <<>>]
      ELSE produce(ApplyMutation(s, m), dirty, remove)

VisibilityProps == {"visible", "mounted", "unmounted"}

\* The field is shown under its hide policy
Shown(s, remove) ==
  s.visible /\ ~(s.unmountRemoveValue /\ remove /\ s.unmounted)

NoSnapshot == [dataType |-> "none"]

MessageChannels ==
  {"errors", "warnings", "effectErrors", "effectWarnings", "ruleErrors",
   "ruleWarnings"}

\* visible is false or unmounted is true
Hidden(s) == s.visible = FALSE \/ s.unmounted = TRUE

Commit(m, fresh) ==
  \E r \in {CommitResult(state, m, fresh, needRemove)} :
  \E dirty \in {DirtysOf(state, m, fresh)} :
      /\ state' = r.d
      /\ calls' = r.calls
      /\ dirtys' = dirty
      /\ touched' = DOMAIN m
      /\ reassigned' = (fresh = {} /\ \A k \in DOMAIN m : m[k] = state[k])
      /\ op' = "commit"
      /\ anchor' = IF DOMAIN m \subseteq VisibilityProps THEN anchor
                   ELSE IF r.d.display /\ Shown(r.d, needRemove)
                        THEN r.d.value ELSE Undef
      /\ mountSynced' = (mountSynced \/ dirty \cap {"mounted", "unmounted"} # {})
      /\ returned' = NoSnapshot
      /\ assignedEditable' = IF "editable" \in DOMAIN m THEN m["editable"]
                             ELSE "none"
      /\ invalidated' = IF DOMAIN m \cap MessageChannels # {} THEN FALSE
                        ELSE IF /\ ~Hidden(state)
                                /\ Hidden(r.d)
                                /\ Len(state.errors) > 0
                             THEN TRUE
                             ELSE invalidated
      /\ UNCHANGED <<lastCompareResults, needRemove, hasGetValue,
                     hasGetInitialValue, extValue, extInitialValue>>

\* --------------------------------------------------------------- read
\* the read that never consults getValue
getValueFromState == state.value

\* field.ts:117-122
getValueFromProps == IF hasGetValue THEN extValue ELSE state.value

\* field.ts:124-132
getInitialValueFromProps ==
  IF hasGetInitialValue
  THEN IF isValid(state.initialValue) THEN state.initialValue
       ELSE extInitialValue
  ELSE state.initialValue

\* field.ts:145-150: the value and initialValue a read derives
DerivedValue ==
  IF isArrayList(state.dataType)
  THEN tagArrayList(toArr(getValueFromProps))
  ELSE getValueFromProps

DerivedInitialValue ==
  IF isArrayList(state.dataType)
  THEN tagArrayList(toArr(getInitialValueFromProps))
  ELSE getInitialValueFromProps

\* getState without the gate on initialized
ReadsThroughAlways(s) == TRUE

\* field.ts:144: a read derives the values only on an initialized field
ReadsThrough(s) == s.initialized

\* field.ts:143-165
getState ==
  /\ op' = "read"
  /\ touched' = {}
  /\ reassigned' = FALSE
  /\ dirtys' = {}
  /\ assignedEditable' = "none"
  /\ UNCHANGED <<needRemove, hasGetValue, hasGetInitialValue, extValue,
                 extInitialValue, anchor, mountSynced, invalidated>>
  /\ IF ~ReadsThrough(state)
     THEN /\ returned' = state
          /\ calls' = <<>>
          /\ UNCHANGED <<state, lastCompareResults>>
     ELSE LET value == DerivedValue
              initialValue == DerivedInitialValue
              compareResults == isEqual(state.value, value)
              asked == (IF hasGetValue THEN <<Call("getValue", Undef)>>
                        ELSE <<>>)
                       \o (IF hasGetInitialValue
                           THEN <<Call("getInitialValue", Undef)>> ELSE <<>>)
          IN  /\ returned' = [state EXCEPT !.initialValue = initialValue,
                                           !.value = value,
                                           !.values = <<value>> \o
                                             (IF Len(state.values) = 0 THEN <<>>
                                              ELSE Tail(state.values))]
              /\ IF ~compareResults /\ lastCompareResults # "false"
                 THEN /\ state' = [state EXCEPT !.value = value]
                      /\ calls' = Append(asked,
                                         Call("unControlledValueChanged", Undef))
                 ELSE /\ state' = state
                      /\ calls' = asked
              /\ lastCompareResults' = IF compareResults THEN "true" ELSE "false"

\* -------------------------------------------------------------- inputs
ValueInputs == {Undef} \cup {Num(i) : i \in 1..MaxVal}

\* arrays assigned to `values': empty or one entry
ValuesInputs == {<<>>} \cup {<<v>> : v \in ValueInputs}

\* arrays assigned to the message channels; "" is dropped by normalizeMessages
EffectMessageInputs == {<<>>, <<"">>, <<"e">>, <<"", "e">>}

RuleMessageInputs == {<<>>, <<"">>, <<"r">>, <<"", "r">>}

ValueMutations ==
  {[value |-> v] : v \in ValueInputs}
  \cup {[values |-> vs] : vs \in ValuesInputs}

VisibilityMutations ==
  {[visible |-> b] : b \in BOOLEAN}
  \cup {[mounted |-> b] : b \in BOOLEAN}
  \cup {[unmounted |-> b] : b \in BOOLEAN}
  \cup {[mounted |-> b, unmounted |-> c] : b, c \in BOOLEAN}
  \cup {[visible |-> b, unmounted |-> c] : b, c \in BOOLEAN}

PolicyMutations ==
  {[display |-> b] : b \in BOOLEAN}
  \cup {[unmountRemoveValue |-> b] : b \in BOOLEAN}

\* The assigned names whose new value is an array object
RefAssigned(m) ==
  {k \in DOMAIN m :
     \/ k = "values"
     \/ k \in {"value", "initialValue", "visibleCacheValue"} /\ isArr(m[k])}

\* ------------------------------------------------------- specifications
InitWith(dataTypes, removes, getters) ==
  /\ \E dt \in dataTypes : state = InitialState(dt)
  /\ lastCompareResults = "undef"
  /\ needRemove \in removes
  /\ hasGetValue \in getters
  /\ hasGetInitialValue \in getters
  /\ extValue = Undef
  /\ extInitialValue = Undef
  /\ op = "init"
  /\ touched = {}
  /\ reassigned = FALSE
  /\ dirtys = {}
  /\ calls = <<>>
  /\ returned = NoSnapshot
  /\ anchor = Undef
  /\ mountSynced = FALSE
  /\ assignedEditable = "none"
  /\ invalidated = FALSE

\* Spec: commits to the value, the visibility flags and the hide policy
Init == InitWith({"any"}, BOOLEAN, {FALSE})

CommitValue ==
  \E m \in ValueMutations : \E fresh \in SUBSET RefAssigned(m) : Commit(m, fresh)

CommitVisibility == \E m \in VisibilityMutations : Commit(m, {})

CommitPolicy == \E m \in PolicyMutations : Commit(m, {})

CommitValueAndVisible ==
  \E m1 \in ValueMutations : \E b \in BOOLEAN :
    \E fresh \in SUBSET RefAssigned(m1) : Commit(m1 @@ [visible |-> b], fresh)

Next ==
  \/ CommitValue
  \/ CommitVisibility
  \/ CommitPolicy
  \/ CommitValueAndVisible

Spec == Init /\ [][Next]_vars

\* ------------------------------------------------- value and visibility
HasCall(fn, arg) == \E i \in 1..Len(calls) : calls[i] = Call(fn, arg)

CallCount(cs, fn) == Cardinality({i \in 1..Len(cs) : cs[i].fn = fn})

\* C1: after every commit the committed snapshot has value === values[0].
ValueIsFirstOfValues ==
  op = "commit" => state.value = First(state.values)

\* C4: after a commit that changed value, values or initialValue, pristine is
\* the structural equality of the committed value and initialValue.
PristineIsEquality ==
  (op = "commit" /\ dirtys \cap {"value", "values", "initialValue"} # {})
    => state.pristine = isEqual(state.value, state.initialValue)

\* C5: starting from a shown field with display true and a valid value v
\* (anchor), after each commit that mutates only visible, mounted and
\* unmounted the field is hidden with value undefined and visibleCacheValue
\* v, or shown with value v.
HideShowRoundTrip ==
  (op = "commit" /\ isValid(anchor))
    => /\ state.display
       /\ IF Shown(state, needRemove)
          THEN state.value = anchor
          ELSE state.value = Undef /\ state.visibleCacheValue = anchor

\* a show commit has restored the value that a hide commit had cleared
HideShowRestored ==
  /\ op = "commit"
  /\ isValid(anchor)
  /\ touched \subseteq VisibilityProps
  /\ Shown(state, needRemove)
  /\ state.value = anchor
  /\ HasCall("setValue", anchor)

\* C7: once a commit has changed mounted or unmounted, mounted is the
\* negation of unmounted after that commit and after every later one.
MountedIsNotUnmounted ==
  mountSynced => state.mounted = ~state.unmounted

\* a commit that changed both flags at once
BothMountFlagsChanged ==
  /\ op = "commit"
  /\ {"mounted", "unmounted"} \subseteq dirtys
  /\ state.mounted = ~state.unmounted

\* --------------------------------------------- messages and editability
\* SpecMsg: commits to the message channels, the editable flags, valid and
\* invalid, and the visibility flags
MessageMutations ==
  {[errors |-> x] : x \in EffectMessageInputs \cup RuleMessageInputs}
  \cup {[warnings |-> x] : x \in EffectMessageInputs}
  \cup {[effectErrors |-> x] : x \in EffectMessageInputs}
  \cup {[effectWarnings |-> x] : x \in EffectMessageInputs}
  \cup {[ruleErrors |-> x] : x \in RuleMessageInputs}
  \cup {[ruleWarnings |-> x] : x \in RuleMessageInputs}

OptionalBooleans == {"undef", "true", "false"}

EditableMutations ==
  {[editable |-> b] : b \in OptionalBooleans}
  \cup {[selfEditable |-> b] : b \in OptionalBooleans}
  \cup {[formEditable |-> f] : f \in OptionalBooleans \cup {"fnT", "fnF"}}
  \cup {[editable |-> b, selfEditable |-> c] : b, c \in OptionalBooleans}
  \cup {[editable |-> b, formEditable |-> c] : b, c \in OptionalBooleans}

ValidMutations ==
  {[valid |-> b] : b \in BOOLEAN}
  \cup {[invalid |-> b] : b \in BOOLEAN}
  \cup {[valid |-> b, invalid |-> c] : b, c \in BOOLEAN}

ShowHideMutations ==
  {[visible |-> b] : b \in BOOLEAN}
  \cup {[mounted |-> b] : b \in BOOLEAN}
  \cup {[unmounted |-> b] : b \in BOOLEAN}

InitMsg == InitWith({"any"}, {FALSE}, {FALSE})

CommitEmpty == Commit(<<>>, {})

CommitMessages == \E m \in MessageMutations : Commit(m, {})

CommitEditableFlag ==
  \E m \in {[editable |-> b] : b \in OptionalBooleans} : Commit(m, {})

CommitValid == \E m \in ValidMutations : Commit(m, {})

CommitShowHide == \E m \in ShowHideMutations : Commit(m, {})

CommitErrorsAndShowHide ==
  \E m1 \in {[errors |-> x] : x \in EffectMessageInputs}
            \cup {[ruleErrors |-> x] : x \in RuleMessageInputs} :
    \E m2 \in ShowHideMutations : Commit(m1 @@ m2, {})

NextMsg ==
  \/ CommitEmpty
  \/ CommitMessages
  \/ CommitEditableFlag
  \/ CommitValid
  \/ CommitShowHide
  \/ CommitErrorsAndShowHide

SpecMsg == InitMsg /\ [][NextMsg]_vars

\* SpecEditable: commits to editable, selfEditable and formEditable, and to
\* the errors they invalidate
CommitEditable == \E m \in EditableMutations : Commit(m, {})

CommitErrors ==
  \E m \in {[errors |-> x] : x \in EffectMessageInputs} : Commit(m, {})

NextEditable ==
  \/ CommitEditable
  \/ CommitErrors

SpecEditable == InitMsg /\ [][NextEditable]_vars

\* C2: after every commit errors is ruleErrors followed by effectErrors and
\* warnings is ruleWarnings followed by effectWarnings.
ErrorsAreRuleThenEffect ==
  op = "commit"
    => /\ state.errors = state.ruleErrors \o state.effectErrors
       /\ state.warnings = state.ruleWarnings \o state.effectWarnings

\* C3: initially and after every commit, invalid is true exactly when errors
\* is non-empty and valid is its negation, also when the mutation writes valid
\* or invalid.
ValidIffNoErrors ==
  /\ state.invalid = (Len(state.errors) > 0)
  /\ state.valid = ~state.invalid

\* a commit that wrote valid on a field with errors
ValidWrittenWithErrors ==
  /\ op = "commit"
  /\ "valid" \in dirtys
  /\ Len(state.errors) > 0
  /\ state.invalid

\* C6: initially and after every commit, editable is selfEditable when that
\* is defined, else formEditable when that is defined (its result when it is
\* a function), else true.
EditablePrecedence ==
  state.editable =
    IF state.selfEditable # "undef" THEN state.selfEditable
    ELSE CASE state.formEditable = "undef" -> "true"
           [] state.formEditable = "fnT" -> "true"
           [] state.formEditable = "fnF" -> "false"
           [] OTHER -> state.formEditable

\* selfEditable was cleared and editable now follows formEditable
SelfEditableCleared ==
  /\ op = "commit"
  /\ "selfEditable" \in dirtys
  /\ state.selfEditable = "undef"
  /\ state.formEditable \in {"false", "fnF"}
  /\ state.editable = "false"

\* C8: after every commit, a snapshot with visible false or unmounted true
\* has errors, warnings, effectErrors and effectWarnings empty and valid true.
HiddenHasNoMessages ==
  (op = "commit" /\ (state.visible = FALSE \/ state.unmounted = TRUE))
    => /\ state.errors = <<>>
       /\ state.warnings = <<>>
       /\ state.effectErrors = <<>>
       /\ state.effectWarnings = <<>>
       /\ state.valid

\* C10: a commit that assigns nothing, or assigns every property its current
\* value, leaves the snapshot unchanged and calls no collaborator.
NoDirtyNoChange ==
  [][(op' = "commit" /\ reassigned') => (state' = state /\ calls' = <<>>)]_vars

\* a commit re-assigned the current, non-empty errors
ErrorsReassigned ==
  /\ op = "commit"
  /\ reassigned
  /\ "errors" \in touched
  /\ state.ruleErrors # <<>>
  /\ state.errors # <<>>
  /\ calls = <<>>

\* ----------------------------------------------------------------- reads
\* SpecRead: commits to initialized and the values, reads, and changes of
\* what the collaborator's getValue and getInitialValue answer
ExternalInputs == ValueInputs \cup {Arr(<<1>>)}

ReadMutations ==
  {[initialized |-> b] : b \in BOOLEAN}
  \cup {[value |-> v] : v \in ValueInputs}
  \cup {[values |-> <<v, Num(1)>>] : v \in ValueInputs}
  \cup {[initialValue |-> v] : v \in ValueInputs}

InitRead == InitWith({"any", "array"}, {FALSE}, BOOLEAN)

CommitRead ==
  \E m \in ReadMutations : \E fresh \in SUBSET RefAssigned(m) : Commit(m, fresh)

Environment(ev, eiv) ==
  /\ extValue' = ev
  /\ extInitialValue' = eiv
  /\ op' = "drift"
  /\ touched' = {}
  /\ reassigned' = FALSE
  /\ dirtys' = {}
  /\ calls' = <<>>
  /\ returned' = NoSnapshot
  /\ assignedEditable' = "none"
  /\ UNCHANGED <<state, lastCompareResults, needRemove, hasGetValue,
                 hasGetInitialValue, anchor, mountSynced, invalidated>>

\* the store behind getValue changes
DriftValue ==
  /\ hasGetValue
  /\ \E v \in ExternalInputs \ {extValue} : Environment(v, extInitialValue)

\* the store behind getInitialValue changes
DriftInitialValue ==
  /\ hasGetInitialValue
  /\ \E v \in ExternalInputs \ {extInitialValue} : Environment(extValue, v)

NextRead ==
  \/ CommitRead
  \/ getState
  \/ DriftValue
  \/ DriftInitialValue

SpecRead == InitRead /\ [][NextRead]_vars

\* C9: every read on an initialized field whose external value differs from
\* the stored value stores the external value and calls
\* unControlledValueChanged exactly once.
ReadAdoptsDrift ==
  [][(op' = "read" /\ state.initialized /\ hasGetValue
        /\ ~isEqual(state.value, DerivedValue))
      => (/\ state'.value = DerivedValue
          /\ CallCount(calls', "unControlledValueChanged") = 1)]_vars

\* --------------------------------------------- rules and required
Rule(required, message, extra) ==
  [required |-> required, message |-> message, extra |-> extra]

RuleInputs ==
  {Rule("undef", FALSE, 1), Rule("true", FALSE, 0), Rule("false", TRUE, 0),
   Rule("true", TRUE, 1)}

RulesInputs ==
  {<<>>} \cup {<<a>> : a \in RuleInputs}
         \cup {<<a, b>> : a \in RuleInputs, b \in RuleInputs}

RequiredInputs == {"true", "false", "undef"}

CommitRules == \E x \in RulesInputs : Commit([rules |-> x], {})

CommitRequired == \E r \in RequiredInputs : Commit([required |-> r], {})

CommitRulesAndRequired ==
  \E x \in RulesInputs, r \in RequiredInputs :
     Commit([rules |-> x, required |-> r], {})

NextRules ==
  \/ CommitRules
  \/ CommitRequired
  \/ CommitRulesAndRequired

SpecRules == InitMsg /\ [][NextRules]_vars

\* the entries of a rule sequence that declare required
Declaring(rules) == {i \in 1..Len(rules) : rules[i].required # "undef"}

\* the first of them
FirstDeclaring(rules) ==
  CHOOSE i \in Declaring(rules) : \A j \in Declaring(rules) : i <= j

\* C11: a commit of {required: true} on a field with empty rules gives
\* rules == [{required: true}] and required == true; a commit that changes
\* rules and not required sets required to the value declared by the first
\* rule entry that declares it, and leaves required unchanged when no entry
\* declares it.
RequiredRulesRoundTrip ==
  [][op' = "commit" =>
       /\ (/\ "required" \in dirtys'
           /\ touched' = {"required"}
           /\ state'.required = "true"
           /\ state.rules = <<>>)
          => state'.rules = <<Rule("true", FALSE, 0)>>
       /\ ("rules" \in dirtys' /\ "required" \notin dirtys')
          => state'.required =
               IF Declaring(state'.rules) = {} THEN state.required
               ELSE state'.rules[FirstDeclaring(state'.rules)].required]_vars

\* C11 witness: a rules-only commit has adopted required from the first of
\* two entries that declare different values
RequiredAdoptedFromFirstRule ==
  /\ op = "commit"
  /\ touched = {"rules"}
  /\ "rules" \in dirtys
  /\ state.rules = <<Rule("false", TRUE, 0), Rule("true", FALSE, 0)>>
  /\ state.required = "false"
\* C18: a commit that changes required to a boolean r and does not assign
\* rules, on a field whose rules are non-empty, appends {required: r} when
\* no entry declares required, and otherwise rewrites exactly the declaring
\* entries to required == r, whatever their message and key count, keeping
\* the other entries, the length and the order.
RequiredRewritesRules ==
  [][(/\ op' = "commit"
      /\ "required" \in dirtys'
      /\ "rules" \notin touched'
      /\ state'.required \in {"true", "false"}
      /\ Len(state.rules) > 0)
     => state'.rules =
          IF Declaring(state.rules) = {}
          THEN Append(state.rules, Rule(state'.required, FALSE, 0))
          ELSE [i \in 1..Len(state.rules) |->
                  IF i \in Declaring(state.rules)
                  THEN [state.rules[i] EXCEPT !.required = state'.required]
                  ELSE state.rules[i]]]_vars

\* C18 witness: a required commit has rewritten a two-key entry that carries
\* a message and left the entry that declares nothing alone
ShorthandRuleRewritten ==
  /\ op = "commit"
  /\ touched = {"required"}
  /\ "required" \in dirtys
  /\ state.required = "true"
  /\ state.rules = <<Rule("true", TRUE, 0), Rule("undef", FALSE, 1)>>
\* C12: a read never calls setValue or setInitialValue and changes no stored
\* property other than value; on a field that is not initialized it returns
\* the stored snapshot, changes nothing and calls no collaborator.
ReadIsSideEffectFree ==
  [][op' = "read" =>
       /\ CallCount(calls', "setValue") = 0
       /\ CallCount(calls', "setInitialValue") = 0
       /\ \A k \in DOMAIN state \ {"value"} : state'[k] = state[k]
       /\ ~state.initialized =>
            /\ returned' = state
            /\ state' = state
            /\ lastCompareResults' = lastCompareResults
            /\ calls' = <<>>]_vars

\* C12 witness: a read of a field that is not initialized, whose external
\* value differs from the stored one, has returned the stored snapshot
UninitializedReadReturnsStored ==
  /\ op = "read"
  /\ ~state.initialized
  /\ hasGetValue
  /\ extValue # state.value
  /\ returned = state

\* the initialValue a read reports before any coercion
ReportedInitialValue ==
  IF isValid(state.initialValue) \/ ~hasGetInitialValue
  THEN state.initialValue
  ELSE extInitialValue

\* the value a read reports before any coercion
ReportedValue == IF hasGetValue THEN extValue ELSE state.value

\* C13 as stated: the snapshot returned by a read of an initialized field has
\* value getValue(name) when provided (the stored value otherwise), values[0]
\* that value over the stored values[1..], and initialValue the stored one when
\* set, otherwise getInitialValue(name).
ReadReturnsExternal ==
  [][(op' = "read" /\ state.initialized) =>
       /\ returned'.value = ReportedValue
       /\ returned'.values = <<ReportedValue>> \o SubSeq(state.values, 2, Len(state.values))
       /\ returned'.initialValue = ReportedInitialValue]_vars

\* C13 amended: the same, with the value and the initialValue coerced to an
\* array when the field is an array-list.
ReadReturnsCoercedExternal ==
  [][(op' = "read" /\ state.initialized) =>
       LET coerce(v) == IF state.dataType = "array" THEN toArr(v) ELSE v
       IN  /\ returned'.value = coerce(ReportedValue)
           /\ returned'.values = <<coerce(ReportedValue)>>
                                   \o SubSeq(state.values, 2, Len(state.values))
           /\ returned'.initialValue = coerce(ReportedInitialValue)]_vars

\* C13 witness: a read of an initialized array-list field has returned the
\* external number as a one-element array in front of the stored values[1]
ReadCoercedExternal ==
  /\ op = "read"
  /\ state.initialized
  /\ state.dataType = "array"
  /\ hasGetValue
  /\ extValue = Num(1)
  /\ returned.value = toArr(Num(1))
  /\ Len(returned.values) = 2
\* the argument of the last setValue call of a call sequence
LastSetValue(cs) ==
  LET at == {i \in 1..Len(cs) : cs[i].fn = "setValue"}
  IN  cs[CHOOSE i \in at : \A j \in at : j <= i].arg

\* C14: every commit whose committed value differs from the value before it
\* calls setValue at least once, and in every commit that calls setValue the
\* argument of the last call is the committed value.
StoreFollowsValue ==
  [][op' = "commit" =>
       /\ state'.value # state.value => CallCount(calls', "setValue") >= 1
       /\ CallCount(calls', "setValue") >= 1
            => LastSetValue(calls') = state'.value]_vars

\* C14 witness: one commit has assigned a value and hidden the field; the
\* store was told the assigned value and then the removal
ValueThenHideSynced ==
  /\ op = "commit"
  /\ {"value", "visible"} \subseteq dirtys
  /\ calls = <<Call("setValue", Num(1)), Call("setValue", Undef)>>
  /\ state.value = Undef
\* C15: under the visible-only policy a commit that changes mounted and / or
\* unmounted and not visible leaves value, values and visibleCacheValue
\* unchanged and makes no setValue call.
MountIgnoredWhenVisibleOnly ==
  [][(/\ op' = "commit"
      /\ ~(state.unmountRemoveValue /\ needRemove)
      /\ dirtys' # {}
      /\ dirtys' \subseteq {"mounted", "unmounted"}
      /\ touched' \subseteq {"mounted", "unmounted"})
     => /\ state'.value = state.value
        /\ state'.values = state.values
        /\ state'.visibleCacheValue = state.visibleCacheValue
        /\ CallCount(calls', "setValue") = 0]_vars
\* C16: after a commit that assigns editable := b for a boolean b,
\* selfEditable == b and editable == b, whatever formEditable is and whether
\* or not b is the previous editable; a following commit that assigns only
\* formEditable leaves editable == b.
AssignedEditableWins ==
  [][op' = "commit" =>
       /\ assignedEditable' \in {"true", "false"}
            => /\ state'.selfEditable = assignedEditable'
               /\ state'.editable = assignedEditable'
       /\ (assignedEditable \in {"true", "false"}
            /\ touched' = {"formEditable"})
            => state'.editable = assignedEditable]_vars
\* C17: when a commit hides a field that has errors (visible becomes false
\* or unmounted becomes true) and a later commit shows it again, with no
\* commit in between mutating a message channel, then after the show commit
\* errors and warnings are empty and valid is true.
HiddenErrorsStayGone ==
  [][(/\ op' = "commit"
      /\ invalidated
      /\ Hidden(state)
      /\ ~Hidden(state')
      /\ touched' \cap MessageChannels = {})
     => /\ state'.errors = <<>>
        /\ state'.warnings = <<>>
        /\ state'.valid]_vars
\* -------------------------------------------------- initialization
InitValueInputs == ValueInputs \cup {Arr(<<>>)}

InitMutations ==
  {[value |-> v] : v \in InitValueInputs}
  \cup {[initialValue |-> v] : v \in ValueInputs}
  \cup {[visible |-> b] : b \in BOOLEAN}

CommitInitialized == \E b \in BOOLEAN : Commit([initialized |-> b], {})

CommitInitInputs ==
  \E m \in InitMutations : \E fresh \in SUBSET RefAssigned(m) : Commit(m, fresh)

CommitInitializedWith ==
  \E b \in BOOLEAN : \E m \in InitMutations :
    \E fresh \in SUBSET RefAssigned(m) : Commit([initialized |-> b] @@ m, fresh)

NextInit ==
  \/ CommitInitialized
  \/ CommitInitInputs
  \/ CommitInitializedWith

SpecInit == InitMsg /\ [][NextInit]_vars

\* the commit changes initialized and neither the value nor the initialValue
InitializedOnly ==
  /\ op' = "commit"
  /\ "initialized" \in dirtys'
  /\ dirtys' \cap {"value", "values", "initialValue"} = {}

Filled ==
  /\ state'.value = state.initialValue
  /\ Len(state'.values) > 0
  /\ state'.values[1] = state.initialValue
  /\ state'.pristine
  /\ CallCount(calls', "setValue") >= 1
  /\ \A i \in 1..Len(calls') :
        calls'[i].fn = "setValue" => calls'[i].arg = state.initialValue

NotFilled ==
  /\ state'.value = state.value
  /\ CallCount(calls', "setValue") = 0

\* C19 as stated, on the commits where the value and the initialValue before
\* the commit are also those the mutation leaves: after a commit that changes
\* initialized while the value is unset or empty and initialValue is set,
\* value == initialValue, values[0] == initialValue, pristine is true and
\* setValue(name, initialValue) has been called; when the value is set and
\* non-empty the commit leaves value unchanged and does not call setValue.
DefaultFillOnInitialized ==
  [][InitializedOnly =>
       /\ ((~isValid(state.value) \/ isEmpty(state.value))
             /\ isValid(state.initialValue)) => Filled
       /\ (isValid(state.value) /\ ~isEmpty(state.value)) => NotFilled]_vars

\* C19 amended: the same for the commits that change none of visible,
\* mounted and unmounted.
DefaultFillWhenNotHiding ==
  [][(InitializedOnly /\ dirtys' \cap VisibilityProps = {}) =>
       /\ ((~isValid(state.value) \/ isEmpty(state.value))
             /\ isValid(state.initialValue)) => Filled
       /\ (isValid(state.value) /\ ~isEmpty(state.value)) => NotFilled]_vars

\* C19 witness: a commit of initialized alone has filled the value of the
\* field with its initialValue and told the store
EmptyValueFilled ==
  /\ op = "commit"
  /\ touched = {"initialized"}
  /\ "initialized" \in dirtys
  /\ calls = <<Call("setValue", Num(1))>>
  /\ state.value = Num(1)
  /\ state.initialValue = Num(1)
  /\ state.values = <<Num(1)>>
  /\ state.pristine
\* C20: in a commit that does not mutate value, values, initialValue or
\* initialized, if display is false or none of visible, mounted and unmounted
\* changed, then value, values and visibleCacheValue are unchanged and
\* setValue is not called.
DisplayGate ==
  [][(/\ op' = "commit"
      /\ touched' \cap {"value", "values", "initialValue", "initialized"} = {}
      /\ (~state'.display \/ dirtys' \cap VisibilityProps = {}))
     => /\ state'.value = state.value
        /\ state'.values = state.values
        /\ state'.visibleCacheValue = state.visibleCacheValue
        /\ CallCount(calls', "setValue") = 0]_vars

\* C20 witness: a field with display false has been hidden and unmounted
\* under the remove policy and still has its value
HiddenWithoutDisplayKeepsValue ==
  /\ op = "commit"
  /\ ~state.display
  /\ needRemove
  /\ state.unmountRemoveValue
  /\ {"visible", "unmounted"} \subseteq dirtys
  /\ ~state.visible
  /\ state.unmounted
  /\ state.value = Num(1)
====
